---- MODULE Spec2Model ----
(***************************************************************************)
(* floe-cms: session/token lifecycle (internal/auth/auth.go), the auth      *)
(* middleware (internal/middleware/middleware.go) and the request handlers  *)
(* that consume them, as a state machine over the relational store.         *)
(*                                                                          *)
(* A table is a sequence of rows: the row's primary key is its index, a     *)
(* soft-deleted row (gorm.DeletedAt set) stays in the sequence with         *)
(* deleted = TRUE and is skipped by every query, as gorm does.              *)
(***************************************************************************)
EXTENDS Integers, Sequences, FiniteSets, TLC

\* ------------------------------------------------------------------ bounds
\* Time is counted in ticks of the clock; the two token lifetimes are the
\* configured durations, scaled to ticks.
MaxTime == 4
AccessExp == 2
RefreshExp == 3
\* The number of logins followed (rows of refresh_tokens).
MaxTokens == 2

\* The contents, content types and media the model lets requests create.
MaxItems == 2
MaxRefreshCalls == 3

\* ------------------------------------------------------------ configuration
jwtSecret == "jwt_secret"
AttackerKey == "attacker_key"
AdminEmail == "admin@floe.cms"
AdminPassword == "adminpassword"
OtherEmail == "editor@floe.cms"
OtherPassword == "Passw0rd1"
Emails == {AdminEmail, OtherEmail}
Passwords == {AdminPassword, OtherPassword}

\* The roles table after bootstrap: ids 1, 2, 3 in creation order.
Roles == <<[name |-> "admin"], [name |-> "editor"], [name |-> "viewer"]>>
RoleIds == DOMAIN Roles

\* Preload("Role"): the role row of role_id, or the zero Role when none matches.
RoleName(role_id) == IF role_id \in DOMAIN Roles THEN Roles[role_id].name ELSE ""

VARIABLES
    now,             \* time.Now()
    users,           \* table users
    refresh_tokens,  \* table refresh_tokens
    user_workspaces, \* table user_workspaces
    contents,        \* table contents
    content_types,   \* table content_types
    media,           \* table media
    files,           \* the files under the uploads directory
    held,            \* the tokens one client keeps (localStorage accessToken, refreshToken)
    revokedOk,       \* the refresh tokens for which RevokeToken returned nil
    resp,            \* the last request and its response
    calls,           \* the RefreshToken and RevokeToken calls in progress
    workspaces,      \* table workspaces
    deletes,         \* the DeleteUser requests in progress
    client           \* the admin client's response interceptor

vars == <<now, users, refresh_tokens, user_workspaces, contents, content_types, media, files, held, revokedOk, resp,
          calls, workspaces, deletes, client>>

\* ------------------------------------------------------------ password hash
\* bcrypt: the hash determines which password verifies against it.
HashPassword(password) == [alg |-> "bcrypt", of |-> password]

CompareHashAndPassword(hash, password) == hash.alg = "bcrypt" /\ hash.of = password

\* ------------------------------------------------------------------- tokens
\* A JWT is header.payload.signature; the signature is the MAC of header and
\* payload under a key.
HMAC(alg, key, claims) == [alg |-> alg, key |-> key, claims |-> claims]

SignedString(alg, key, claims) == [alg |-> alg, claims |-> claims, sig |-> HMAC(alg, key, claims)]

ZeroClaims == [user_id |-> 0, email |-> "", role_id |-> 0, role_name |-> "", exp |-> 0]

\* The empty string returned in place of a token.
EmptyToken == [alg |-> "", claims |-> ZeroClaims, sig |-> HMAC("", "", ZeroClaims)]

\* The zero models.User (what a Preload leaves when no row matches).
ZeroUser == [id |-> 0, email |-> "", password_hash |-> HashPassword(""), role_id |-> 0, active |-> FALSE, deleted |-> FALSE]

HMACMethods == {"HS256", "HS384", "HS512"}

\* A generateAccessToken whose expiry is the time of issue: the lifetime is
\* not added.
generateAccessTokenNoLifetime(user) ==
    SignedString("HS256", jwtSecret,
        [user_id |-> user.id, email |-> user.email, role_id |-> user.role_id,
         role_name |-> RoleName(user.role_id), exp |-> now])

\* generateAccessToken: the claims are copied from the user row as loaded,
\* the expiry is now + accessExp, the token is signed HS256 with the secret.
generateAccessToken(user) ==
    SignedString("HS256", jwtSecret,
        [user_id |-> user.id, email |-> user.email, role_id |-> user.role_id,
         role_name |-> RoleName(user.role_id), exp |-> now + AccessExp])

\* A ValidateToken that accepts a token at its expiry time.
ValidateTokenInclusive(tok) ==
    IF tok.alg \notin HMACMethods
    THEN [ok |-> FALSE, claims |-> ZeroClaims, err |-> "unexpected signing method"]
    ELSE IF tok.sig # HMAC(tok.alg, jwtSecret, tok.claims)
    THEN [ok |-> FALSE, claims |-> ZeroClaims, err |-> "signature is invalid"]
    ELSE IF ~(now <= tok.claims.exp)
    THEN [ok |-> FALSE, claims |-> ZeroClaims, err |-> "token is expired"]
    ELSE [ok |-> TRUE, claims |-> tok.claims, err |-> ""]

\* A ValidateToken that looks the user up and rejects a token whose role is
\* no longer the stored one.
ValidateTokenStoredRole(tok) ==
    IF tok.alg \notin HMACMethods
    THEN [ok |-> FALSE, claims |-> ZeroClaims, err |-> "unexpected signing method"]
    ELSE IF tok.sig # HMAC(tok.alg, jwtSecret, tok.claims)
    THEN [ok |-> FALSE, claims |-> ZeroClaims, err |-> "signature is invalid"]
    ELSE IF ~(now < tok.claims.exp)
    THEN [ok |-> FALSE, claims |-> ZeroClaims, err |-> "token is expired"]
    ELSE IF \A i \in DOMAIN users : users[i].id = tok.claims.user_id => users[i].role_id # tok.claims.role_id
    THEN [ok |-> FALSE, claims |-> ZeroClaims, err |-> "role changed"]
    ELSE [ok |-> TRUE, claims |-> tok.claims, err |-> ""]

\* ValidateToken: jwt.ParseWithClaims with the key function of auth.go:81-86.
\* The key function rejects a non-HMAC method; the library then verifies the
\* signature under the returned key and validates exp with now.Before(exp).
ValidateToken(tok) ==
    IF tok.alg \notin HMACMethods
    THEN [ok |-> FALSE, claims |-> ZeroClaims, err |-> "unexpected signing method"]
    ELSE IF tok.sig # HMAC(tok.alg, jwtSecret, tok.claims)
    THEN [ok |-> FALSE, claims |-> ZeroClaims, err |-> "signature is invalid"]
    ELSE IF ~(now < tok.claims.exp)
    THEN [ok |-> FALSE, claims |-> ZeroClaims, err |-> "token is expired"]
    ELSE [ok |-> TRUE, claims |-> tok.claims, err |-> ""]

\* ------------------------------------------------------------------ queries
Live(table) == {i \in DOMAIN table : ~table[i].deleted}

\* First(): the matching row with the smallest primary key.
First(S) == CHOOSE i \in S : \A j \in S : i <= j

UsersByEmail(email) == {i \in Live(users) : users[i].email = email}

\* Preload("User"): the live user row of a user id, or the zero User.
PreloadUser(user_id) == IF user_id \in Live(users) THEN users[user_id] ELSE ZeroUser

\* The query without its revoked = false condition.
RefreshRowsIgnoringRevoked(token) ==
    {i \in Live(refresh_tokens) :
        /\ refresh_tokens[i].token = token
        /\ refresh_tokens[i].expires_at > now}

\* "token = ? AND revoked = ? AND expires_at > ?", token, false, time.Now()
ValidRefreshRows(token) ==
    {i \in Live(refresh_tokens) :
        /\ refresh_tokens[i].token = token
        /\ refresh_tokens[i].revoked = FALSE
        /\ refresh_tokens[i].expires_at > now}

\* "token = ?"
RefreshRowsByToken(token) == {i \in Live(refresh_tokens) : refresh_tokens[i].token = token}

\* A refresh token string is 32 random bytes in hex: a string no row holds
\* yet. Strings are numbered, 0 is the empty string.
TokenStrings == 1..MaxTokens

FreshTokenString == Len(refresh_tokens) + 1

\* --------------------------------------------------------- Session Manager
\* A generateRefreshToken that keeps one session per user: the user's
\* earlier rows are revoked when the new row is stored.
generateRefreshTokenSingleSession(user_id, fault) ==
    IF fault = "insert"
    THEN [token |-> 0, err |-> "store error", rows |-> refresh_tokens]
    ELSE [token |-> FreshTokenString, err |-> "",
          rows |-> Append([i \in DOMAIN refresh_tokens |->
                             IF refresh_tokens[i].user_id = user_id
                             THEN [refresh_tokens[i] EXCEPT !.revoked = TRUE]
                             ELSE refresh_tokens[i]],
                     [user_id |-> user_id, token |-> FreshTokenString,
                      expires_at |-> now + RefreshExp, revoked |-> FALSE, deleted |-> FALSE])]

\* generateRefreshToken: one row, expiry now + refreshExp, revoked false; a
\* failed insert returns the error and no token.
generateRefreshToken(user_id, fault) ==
    IF fault = "insert"
    THEN [token |-> 0, err |-> "store error", rows |-> refresh_tokens]
    ELSE [token |-> FreshTokenString, err |-> "",
          rows |-> Append(refresh_tokens,
                     [user_id |-> user_id, token |-> FreshTokenString,
                      expires_at |-> now + RefreshExp, revoked |-> FALSE, deleted |-> FALSE])]

LoginError(err) ==
    [access_token |-> EmptyToken, refresh_token |-> 0, err |-> err, rows |-> refresh_tokens]

\* A Login that hands back the access token it has generated when the
\* refresh token cannot be stored.
LoginKeepsAccessToken(email, password, fault) ==
    IF fault = "lookup" THEN LoginError("store error")
    ELSE IF UsersByEmail(email) = {} THEN LoginError("invalid credentials")
    ELSE LET user == users[First(UsersByEmail(email))] IN
        IF ~user.active THEN LoginError("user account is deactivated")
        ELSE IF ~CompareHashAndPassword(user.password_hash, password)
        THEN LoginError("invalid credentials")
        ELSE LET rt == generateRefreshToken(user.id, fault) IN
            IF rt.err # ""
            THEN [LoginError(rt.err) EXCEPT !.access_token = generateAccessToken(user)]
            ELSE [access_token |-> generateAccessToken(user), refresh_token |-> rt.token,
                  err |-> "", rows |-> rt.rows]

\* A Login that verifies the password before it looks at the active flag.
LoginPasswordFirst(email, password, fault) ==
    IF fault = "lookup" THEN LoginError("store error")
    ELSE IF UsersByEmail(email) = {} THEN LoginError("invalid credentials")
    ELSE LET user == users[First(UsersByEmail(email))] IN
        IF ~CompareHashAndPassword(user.password_hash, password)
        THEN LoginError("invalid credentials")
        ELSE IF ~user.active THEN LoginError("user account is deactivated")
        ELSE LET rt == generateRefreshToken(user.id, fault) IN
            IF rt.err # "" THEN LoginError(rt.err)
            ELSE [access_token |-> generateAccessToken(user), refresh_token |-> rt.token,
                  err |-> "", rows |-> rt.rows]

\* A Login that tells a wrong password from an unknown email.
LoginDistinctErrors(email, password, fault) ==
    IF fault = "lookup" THEN LoginError("store error")
    ELSE IF UsersByEmail(email) = {} THEN LoginError("invalid credentials")
    ELSE LET user == users[First(UsersByEmail(email))] IN
        IF ~user.active THEN LoginError("user account is deactivated")
        ELSE IF ~CompareHashAndPassword(user.password_hash, password)
        THEN LoginError("invalid password")
        ELSE LET rt == generateRefreshToken(user.id, fault) IN
            IF rt.err # "" THEN LoginError(rt.err)
            ELSE [access_token |-> generateAccessToken(user), refresh_token |-> rt.token,
                  err |-> "", rows |-> rt.rows]

\* Manager.Login
Login(email, password, fault) ==
    IF fault = "lookup" THEN LoginError("store error")
    ELSE IF UsersByEmail(email) = {} THEN LoginError("invalid credentials")
    ELSE LET user == users[First(UsersByEmail(email))] IN
        IF ~user.active THEN LoginError("user account is deactivated")
        ELSE IF ~CompareHashAndPassword(user.password_hash, password)
        THEN LoginError("invalid credentials")
        ELSE LET rt == generateRefreshToken(user.id, fault) IN
            IF rt.err # "" THEN LoginError(rt.err)
            ELSE [access_token |-> generateAccessToken(user), refresh_token |-> rt.token,
                  err |-> "", rows |-> rt.rows]

\* A RefreshToken that preloads the user without the user's role.
RefreshTokenUnloadedRole(token, fault) ==
    IF fault # "none" \/ ValidRefreshRows(token) = {}
    THEN [access_token |-> EmptyToken, err |-> "invalid refresh token", rows |-> refresh_tokens]
    ELSE LET row == refresh_tokens[First(ValidRefreshRows(token))] IN
        [access_token |-> SignedString("HS256", jwtSecret,
                             [generateAccessToken(PreloadUser(row.user_id)).claims EXCEPT !.role_name = ""]),
         err |-> "", rows |-> refresh_tokens]

\* A RefreshToken that rotates: the row it has used is revoked.
RefreshTokenRotating(token, fault) ==
    IF fault # "none" \/ ValidRefreshRows(token) = {}
    THEN [access_token |-> EmptyToken, err |-> "invalid refresh token", rows |-> refresh_tokens]
    ELSE LET row == refresh_tokens[First(ValidRefreshRows(token))] IN
        [access_token |-> generateAccessToken(PreloadUser(row.user_id)), err |-> "",
         rows |-> [refresh_tokens EXCEPT ![First(ValidRefreshRows(token))].revoked = TRUE]]

\* Manager.RefreshToken: a read of the row with its user and the user's role;
\* any error of the query is reported as an invalid refresh token.
RefreshToken(token, fault) ==
    IF fault # "none" \/ ValidRefreshRows(token) = {}
    THEN [access_token |-> EmptyToken, err |-> "invalid refresh token", rows |-> refresh_tokens]
    ELSE LET row == refresh_tokens[First(ValidRefreshRows(token))] IN
        [access_token |-> generateAccessToken(PreloadUser(row.user_id)), err |-> "",
         rows |-> refresh_tokens]

\* A RevokeToken whose UPDATE matches only the rows not yet revoked.
RevokeTokenOnlyUnrevoked(token, fault) ==
    IF fault # "none" THEN [err |-> "store error", rows |-> refresh_tokens]
    ELSE IF {i \in RefreshRowsByToken(token) : ~refresh_tokens[i].revoked} = {}
    THEN [err |-> "token not found", rows |-> refresh_tokens]
    ELSE [err |-> "",
          rows |-> [i \in DOMAIN refresh_tokens |->
                      IF i \in RefreshRowsByToken(token)
                      THEN [refresh_tokens[i] EXCEPT !.revoked = TRUE]
                      ELSE refresh_tokens[i]]]

\* Manager.RevokeToken: UPDATE refresh_tokens SET revoked = true WHERE token = ?
RevokeToken(token, fault) ==
    IF fault # "none" THEN [err |-> "store error", rows |-> refresh_tokens]
    ELSE IF RefreshRowsByToken(token) = {} THEN [err |-> "token not found", rows |-> refresh_tokens]
    ELSE [err |-> "",
          rows |-> [i \in DOMAIN refresh_tokens |->
                      IF i \in RefreshRowsByToken(token)
                      THEN [refresh_tokens[i] EXCEPT !.revoked = TRUE]
                      ELSE refresh_tokens[i]]]

\* --------------------------------------------------------------- middleware
\* An Authorization header: scheme "" is no header. origin records how the
\* token presented was made (it is not read by the program).
NoHeader == [scheme |-> "", token |-> EmptyToken, origin |-> "none"]

Pass(claims) == [status |-> 200, error |-> "", claims |-> claims]

Reject(status, error) == [status |-> status, error |-> error, claims |-> ZeroClaims]

AuthMiddleware(header) ==
    IF header.scheme = "" THEN Reject(401, "Authorization header required")
    ELSE IF header.scheme # "Bearer" THEN Reject(401, "Invalid Authorization header format")
    ELSE LET v == ValidateToken(header.token) IN
        IF ~v.ok THEN Reject(401, "Invalid or expired token") ELSE Pass(v.claims)

\* EditorOrAbove, mounted where AdminOnly belongs.
AdminOnlyOrEditor(claims) ==
    IF claims.role_name # "admin" /\ claims.role_name # "editor"
    THEN Reject(403, "Admin access required") ELSE Pass(claims)

AdminOnly(claims) ==
    IF claims.role_name # "admin" THEN Reject(403, "Admin access required") ELSE Pass(claims)

\* r.Use(mw.AuthMiddleware(authManager)) then r.Use(mw.AdminOnly)
AdminRoute(header) ==
    LET a == AuthMiddleware(header) IN IF a.status # 200 THEN a ELSE AdminOnly(a.claims)

\* ------------------------------------------------------------------- utils
WellFormedEmails == Emails \cup {"nobody@floe.cms"}

\* utils.ValidateEmail: the address matches the pattern local@domain.tld.
ValidateEmail(email) == email \in WellFormedEmails

\* What utils.ValidatePassword reads of a password: its length and the
\* character classes it holds.
PasswordShape(password) ==
    CASE password = AdminPassword -> [len |-> 13, upper |-> FALSE, lower |-> TRUE, number |-> FALSE]
      [] password = OtherPassword -> [len |-> 9, upper |-> TRUE, lower |-> TRUE, number |-> TRUE]
      [] OTHER -> [len |-> 0, upper |-> FALSE, lower |-> FALSE, number |-> FALSE]

ValidatePassword(password, minLength) ==
    IF PasswordShape(password).len < minLength THEN "password must be at least 8 characters long"
    ELSE IF ~PasswordShape(password).upper \/ ~PasswordShape(password).lower \/ ~PasswordShape(password).number
    THEN "password must contain at least one uppercase letter, one lowercase letter, and one number"
    ELSE ""

\* utils.ToSlug on the names and titles of the requests: lower case, spaces
\* to hyphens, every other character that is not a letter, a digit or a
\* hyphen removed, runs of hyphens to one, hyphens trimmed at both ends.
ToSlug(s) ==
    CASE s = "Hello" -> "hello"
      [] s = "Edited" -> "edited"
      [] s = "Blog" -> "blog"
      [] s = "Default!" -> "default"
      [] OTHER -> s

\* ------------------------------------------------------------ user handlers
\* Every row that holds the email, soft-deleted or not: the unique index on
\* users.email covers them all.
IndexedByEmail(email) == {i \in DOMAIN users : users[i].email = email}

UserResult(status, error, rows) == [status |-> status, error |-> error, users |-> rows]

\* UserHandler.CreateUser
CreateUser(req) ==
    IF req.email = "" \/ req.password = "" THEN UserResult(400, "Email and password are required", users)
    ELSE IF ~ValidateEmail(req.email) THEN UserResult(400, "Invalid email format", users)
    ELSE IF ValidatePassword(req.password, 8) # "" THEN UserResult(400, ValidatePassword(req.password, 8), users)
    ELSE IF UsersByEmail(req.email) # {} THEN UserResult(400, "Email is already taken", users)
    ELSE IF IndexedByEmail(req.email) # {} THEN UserResult(500, "Failed to create user", users)
    ELSE UserResult(201, "",
            Append(users, [id |-> Len(users) + 1, email |-> req.email,
                           password_hash |-> HashPassword(req.password),
                           role_id |-> req.role_id, active |-> TRUE, deleted |-> FALSE]))

\* UserHandler.UpdateUser. In req, email "" and role_id 0 are the zero values
\* of an absent field, active "nil" is the nil *bool.
UpdateUser(id, req) ==
    IF id \notin Live(users) THEN UserResult(404, "User not found", users)
    ELSE LET user == users[id]
             emailChanges == req.email # "" /\ req.email # user.email
         IN IF emailChanges /\ ~ValidateEmail(req.email) THEN UserResult(400, "Invalid email format", users)
            ELSE IF emailChanges /\ UsersByEmail(req.email) # {} THEN UserResult(400, "Email is already taken", users)
            ELSE IF emailChanges /\ IndexedByEmail(req.email) # {} THEN UserResult(500, "Failed to update user", users)
            ELSE UserResult(200, "",
                    [users EXCEPT ![id] =
                        [user EXCEPT !.email = IF emailChanges THEN req.email ELSE user.email,
                                     !.role_id = IF req.role_id # 0 THEN req.role_id ELSE user.role_id,
                                     !.active = IF req.active # "nil" THEN req.active = "true" ELSE user.active]])

\* A delete that does not count the admins that would remain.
DeleteUserUnguarded(id) ==
    IF id \notin Live(users) THEN UserResult(404, "User not found", users)
    ELSE UserResult(200, "", [users EXCEPT ![id].deleted = TRUE])

\* UserHandler.DeleteUser
DeleteUser(id) ==
    IF id \notin Live(users) THEN UserResult(404, "User not found", users)
    ELSE IF users[id].role_id = 1 /\ Cardinality({i \in Live(users) : users[i].role_id = 1}) <= 1
    THEN UserResult(400, "Cannot delete the only admin user", users)
    ELSE UserResult(200, "", [users EXCEPT ![id].deleted = TRUE])

\* UserHandler.GetCurrentUser
GetCurrentUser(claims) ==
    IF claims.user_id \notin Live(users) THEN [status |-> 500, error |-> "Failed to fetch user"]
    ELSE [status |-> 200, error |-> ""]

\* UserHandler.UpdateCurrentUser. In req, email "" is the zero value of an
\* absent field.
UpdateCurrentUser(claims, req) ==
    IF claims.user_id \notin Live(users) THEN UserResult(500, "Failed to fetch user", users)
    ELSE LET user == users[claims.user_id]
             emailChanges == req.email # "" /\ req.email # user.email
         IN IF emailChanges /\ ~ValidateEmail(req.email) THEN UserResult(400, "Invalid email format", users)
            ELSE IF emailChanges /\ UsersByEmail(req.email) # {} THEN UserResult(400, "Email is already taken", users)
            ELSE IF emailChanges /\ IndexedByEmail(req.email) # {} THEN UserResult(500, "Failed to update user", users)
            ELSE UserResult(200, "",
                    [users EXCEPT ![claims.user_id].email = IF emailChanges THEN req.email ELSE user.email])

\* UserHandler.ChangePassword
ChangePassword(claims, req) ==
    IF req.old_password = "" \/ req.new_password = ""
    THEN UserResult(400, "Old password and new password are required", users)
    ELSE IF ValidatePassword(req.new_password, 8) # ""
    THEN UserResult(400, ValidatePassword(req.new_password, 8), users)
    ELSE IF claims.user_id \notin Live(users) THEN UserResult(500, "Failed to fetch user", users)
    ELSE IF ~CompareHashAndPassword(users[claims.user_id].password_hash, req.old_password)
    THEN UserResult(401, "Invalid old password", users)
    ELSE UserResult(200, "",
            [users EXCEPT ![claims.user_id].password_hash = HashPassword(req.new_password)])

\* ---------------------------------------------------------------- bootstrap
\* Every row that holds the slug, soft-deleted or not: the unique index on
\* workspaces.slug covers them all.
IndexedBySlug(slug) == {i \in DOMAIN workspaces : workspaces[i].slug = slug}

BootResult(err, userRows, workspaceRows, memberRows) ==
    [err |-> err, users |-> userRows, workspaces |-> workspaceRows, user_workspaces |-> memberRows]

\* auth.EnsureAdminExists. The three roles are found by name once they have
\* been created; no handler writes the roles table.
EnsureAdminExists(email, password) ==
    IF UsersByEmail(email) # {} THEN BootResult("", users, workspaces, user_workspaces)
    ELSE IF IndexedByEmail(email) # {}
    THEN BootResult("UNIQUE constraint failed: users.email", users, workspaces, user_workspaces)
    ELSE LET adminUser == [id |-> Len(users) + 1, email |-> email,
                           password_hash |-> HashPassword(password),
                           role_id |-> CHOOSE r \in RoleIds : RoleName(r) = "admin",
                           active |-> TRUE, deleted |-> FALSE]
             defaultWorkspace == [id |-> Len(workspaces) + 1, slug |-> "default", deleted |-> FALSE]
         IN IF IndexedBySlug("default") # {}
            THEN BootResult("UNIQUE constraint failed: workspaces.slug",
                            Append(users, adminUser), workspaces, user_workspaces)
            ELSE BootResult("", Append(users, adminUser), Append(workspaces, defaultWorkspace),
                            Append(user_workspaces,
                                   [user_id |-> adminUser.id, workspace_id |-> defaultWorkspace.id,
                                    deleted |-> FALSE]))

WorkspaceResult(status, error, rows) == [status |-> status, error |-> error, workspaces |-> rows]

\* WorkspaceHandler.CreateWorkspace
CreateWorkspace(req) ==
    IF req.name = "" THEN WorkspaceResult(400, "Name is required", workspaces)
    ELSE LET slug == IF req.slug = "" THEN ToSlug(req.name) ELSE req.slug IN
        IF IndexedBySlug(slug) # {} THEN WorkspaceResult(500, "Failed to create workspace", workspaces)
        ELSE WorkspaceResult(201, "",
                Append(workspaces, [id |-> Len(workspaces) + 1, slug |-> slug, deleted |-> FALSE]))

\* WorkspaceHandler.UpdateWorkspace. In req, slug "" is the zero value of an
\* absent field.
UpdateWorkspace(id, req) ==
    IF id \notin Live(workspaces) THEN WorkspaceResult(404, "Workspace not found", workspaces)
    ELSE IF req.slug # "" /\ IndexedBySlug(req.slug) \ {id} # {}
    THEN WorkspaceResult(500, "Failed to update workspace", workspaces)
    ELSE WorkspaceResult(200, "",
            [workspaces EXCEPT ![id].slug = IF req.slug # "" THEN req.slug ELSE workspaces[id].slug])

\* WorkspaceHandler.DeleteWorkspace
DeleteWorkspace(id) ==
    IF {i \in Live(contents) : contents[i].workspace_id = id} # {}
    THEN WorkspaceResult(400, "Cannot delete workspace that has content", workspaces)
    ELSE WorkspaceResult(200, "",
            [i \in DOMAIN workspaces |->
                IF i = id THEN [workspaces[i] EXCEPT !.deleted = TRUE] ELSE workspaces[i]])

\* ------------------------------------------------------------ auth handlers
AuthResult(status, error, access_token, refresh_token, rows) ==
    [status |-> status, error |-> error, access_token |-> access_token,
     refresh_token |-> refresh_token, rows |-> rows]

\* AuthHandler.Login
AuthHandlerLogin(req, fault) ==
    IF req.email = "" \/ req.password = ""
    THEN AuthResult(400, "Email and password are required", EmptyToken, 0, refresh_tokens)
    ELSE LET r == Login(req.email, req.password, fault) IN
        IF r.err # "" THEN AuthResult(401, r.err, EmptyToken, 0, r.rows)
        ELSE AuthResult(200, "", r.access_token, r.refresh_token, r.rows)

\* AuthHandler.RefreshToken
AuthHandlerRefreshToken(req, fault) ==
    IF req.refresh_token = 0
    THEN AuthResult(400, "Refresh token is required", EmptyToken, 0, refresh_tokens)
    ELSE LET r == RefreshToken(req.refresh_token, fault) IN
        IF r.err # "" THEN AuthResult(401, r.err, EmptyToken, 0, r.rows)
        ELSE AuthResult(200, "", r.access_token, 0, r.rows)

\* AuthHandler.Logout
AuthHandlerLogout(req, fault) ==
    IF req.refresh_token = 0
    THEN AuthResult(400, "Refresh token is required", EmptyToken, 0, refresh_tokens)
    ELSE LET r == RevokeToken(req.refresh_token, fault) IN
        IF r.err # "" THEN AuthResult(500, "Failed to logout", EmptyToken, 0, r.rows)
        ELSE AuthResult(200, "", EmptyToken, 0, r.rows)

\* POST /api/auth/logout, behind AuthMiddleware.
LogoutRoute(header, req, fault) ==
    LET a == AuthMiddleware(header) IN
    IF a.status # 200 THEN AuthResult(a.status, a.error, EmptyToken, 0, refresh_tokens)
    ELSE AuthHandlerLogout(req, fault)

\* --------------------------------------------- content and media handlers
\* The workspaces table: EnsureAdminExists creates the default workspace.
Workspaces == {1}

\* SELECT count(*) FROM user_workspaces WHERE user_id = ? AND workspace_id = ?
CountUserWorkspaces(user_id, workspace_id) ==
    Cardinality({i \in Live(user_workspaces) :
                    /\ user_workspaces[i].user_id = user_id
                    /\ user_workspaces[i].workspace_id = workspace_id})

HandlerResult(status, error) ==
    [status |-> status, error |-> error, contents |-> contents, content_types |-> content_types,
     media |-> media, files |-> files, user_workspaces |-> user_workspaces, listed |-> {}]

CreateContent(claims, req, fault) ==
    IF req.workspace_id = 0 \/ req.title = "" \/ req.body = ""
    THEN HandlerResult(400, "Workspace ID, title, and body are required")
    ELSE IF fault # "none"
    THEN HandlerResult(500, "Failed to create content")
    ELSE [HandlerResult(201, "") EXCEPT
             !.contents = Append(contents, [id |-> Len(contents) + 1, workspace_id |-> req.workspace_id,
                                            title |-> req.title, body |-> req.body,
                                            slug |-> IF req.slug = "" THEN ToSlug(req.title) ELSE req.slug,
                                            status |-> IF req.status = "" THEN "draft" ELSE req.status,
                                            author_id |-> claims.user_id, deleted |-> FALSE])]

UpdateContent(claims, id, req, fault) ==
    IF id \notin Live(contents)
    THEN HandlerResult(404, "Content not found")
    ELSE IF claims.role_name # "admin" /\ claims.user_id # contents[id].author_id
    THEN HandlerResult(403, "Permission denied")
    ELSE IF fault # "none"
    THEN HandlerResult(500, "Failed to update content")
    ELSE [HandlerResult(200, "") EXCEPT
             !.contents = [contents EXCEPT
                              ![id].title = IF req.title # "" THEN req.title ELSE @,
                              ![id].slug = IF req.slug # "" THEN req.slug ELSE @,
                              ![id].body = IF req.body # "" THEN req.body ELSE @,
                              ![id].status = IF req.status # "" THEN req.status ELSE @]]

GetContent(claims, id, fault) ==
    IF id \notin Live(contents)
    THEN HandlerResult(404, "Content not found")
    ELSE IF claims.role_name # "admin" /\ fault # "none"
    THEN HandlerResult(500, "Failed to check workspace access")
    ELSE IF claims.role_name # "admin" /\ CountUserWorkspaces(claims.user_id, contents[id].workspace_id) = 0
    THEN HandlerResult(403, "You don't have access to this content")
    ELSE HandlerResult(200, "")

\* The rows a list query returns: those of the workspace the query names.
InWorkspace(table, workspace_id) == {i \in Live(table) : table[i].workspace_id = workspace_id}

ListContent(claims, workspace_id, fault) ==
    IF fault # "none"
    THEN HandlerResult(500, "Failed to count contents")
    ELSE [HandlerResult(200, "") EXCEPT
             !.listed = IF workspace_id = 0 THEN Live(contents) ELSE InWorkspace(contents, workspace_id)]

DeleteContent(claims, id, fault) ==
    IF id \notin Live(contents)
    THEN HandlerResult(404, "Content not found")
    ELSE IF claims.role_name # "admin" /\ claims.user_id # contents[id].author_id
    THEN HandlerResult(403, "Permission denied")
    ELSE IF fault # "none"
    THEN HandlerResult(500, "Failed to delete content")
    ELSE [HandlerResult(200, "") EXCEPT !.contents = [contents EXCEPT ![id].deleted = TRUE]]

\* First() of the workspaces whose slug is the one in the URL.
WorkspaceBySlug(workspace) == {i \in Live(workspaces) : workspaces[i].slug = workspace}

\* A listing that leaves the status out of its query.
GetPublishedContentAnyStatus(workspace) ==
    IF workspace = "" THEN HandlerResult(400, "Workspace is required")
    ELSE IF WorkspaceBySlug(workspace) = {} THEN HandlerResult(404, "Workspace not found")
    ELSE [HandlerResult(200, "") EXCEPT
             !.listed = InWorkspace(contents, First(WorkspaceBySlug(workspace)))]

\* ContentHandler.GetPublishedContent, for a request without limit, offset
\* and content_type_id: the first ten rows, more than a table holds here.
GetPublishedContent(workspace) ==
    IF workspace = "" THEN HandlerResult(400, "Workspace is required")
    ELSE IF WorkspaceBySlug(workspace) = {} THEN HandlerResult(404, "Workspace not found")
    ELSE [HandlerResult(200, "") EXCEPT
             !.listed = {i \in InWorkspace(contents, First(WorkspaceBySlug(workspace))) :
                            contents[i].status = "published"}]

\* ContentHandler.GetContentBySlug
GetContentBySlug(workspace, slug) ==
    IF workspace = "" \/ slug = "" THEN HandlerResult(400, "Workspace and slug are required")
    ELSE IF WorkspaceBySlug(workspace) = {} THEN HandlerResult(404, "Workspace not found")
    ELSE LET found == {i \in InWorkspace(contents, First(WorkspaceBySlug(workspace))) :
                          contents[i].slug = slug /\ contents[i].status = "published"}
         IN IF found = {} THEN HandlerResult(404, "Content not found")
            ELSE [HandlerResult(200, "") EXCEPT !.listed = {First(found)}]

CreateContentType(claims, req, fault) ==
    IF req.workspace_id = 0 \/ req.name = ""
    THEN HandlerResult(400, "Workspace ID and name are required")
    ELSE IF fault # "none"
    THEN HandlerResult(500, "Failed to create content type")
    ELSE [HandlerResult(201, "") EXCEPT
             !.content_types = Append(content_types, [id |-> Len(content_types) + 1,
                                                      workspace_id |-> req.workspace_id,
                                                      name |-> req.name, deleted |-> FALSE])]

ListContentTypes(claims, workspace_id, fault) ==
    IF workspace_id = 0
    THEN HandlerResult(400, "Workspace ID is required")
    ELSE IF fault # "none"
    THEN HandlerResult(500, "Failed to fetch content types")
    ELSE [HandlerResult(200, "") EXCEPT !.listed = InWorkspace(content_types, workspace_id)]

\* LocalStorage.Save names the file after the uploader and a random string;
\* the model names it after the media row it is saved for.
Save(userID) == Len(media) + 1

\* storage.Delete: the path must name an existing file.
StorageDelete(path) ==
    IF path \notin files
    THEN [err |-> "file not found", files |-> files]
    ELSE [err |-> "", files |-> files \ {path}]

UploadMedia(claims, req, fault) ==
    IF req.workspace_id = 0
    THEN HandlerResult(400, "Workspace ID is required")
    ELSE IF ~req.file
    THEN HandlerResult(400, "No file provided")
    ELSE IF fault = "save"
    THEN HandlerResult(500, "Failed to save file")
    ELSE IF fault = "insert"
    THEN HandlerResult(500, "Failed to create media record")
    ELSE [HandlerResult(201, "") EXCEPT
             !.files = files \cup {Save(claims.user_id)},
             !.media = Append(media, [id |-> Len(media) + 1, workspace_id |-> req.workspace_id,
                                      file_path |-> Save(claims.user_id),
                                      uploaded_by |-> claims.user_id, deleted |-> FALSE])]

ListMedia(claims, workspace_id, fault) ==
    IF workspace_id = 0
    THEN HandlerResult(400, "Workspace ID is required")
    ELSE IF fault # "none"
    THEN HandlerResult(500, "Failed to count media")
    ELSE [HandlerResult(200, "") EXCEPT !.listed = InWorkspace(media, workspace_id)]

\* A DeleteMedia without the uploader-or-admin check.
DeleteMediaAnyCaller(claims, id, fault) ==
    IF id \notin Live(media)
    THEN HandlerResult(404, "Media not found")
    ELSE LET d == StorageDelete(media[id].file_path) IN
         IF d.err # ""
         THEN HandlerResult(500, "Failed to delete file: " \o d.err)
         ELSE IF fault # "none"
         THEN [HandlerResult(500, "Failed to delete media record") EXCEPT !.files = d.files]
         ELSE [HandlerResult(200, "") EXCEPT
                  !.files = d.files, !.media = [media EXCEPT ![id].deleted = TRUE]]

DeleteMedia(claims, id, fault) ==
    IF id \notin Live(media)
    THEN HandlerResult(404, "Media not found")
    ELSE IF claims.role_name # "admin" /\ claims.user_id # media[id].uploaded_by
    THEN HandlerResult(403, "Permission denied")
    ELSE LET d == StorageDelete(media[id].file_path) IN
         IF d.err # ""
         THEN HandlerResult(500, "Failed to delete file: " \o d.err)
         ELSE IF fault # "none"
         THEN [HandlerResult(500, "Failed to delete media record") EXCEPT !.files = d.files]
         ELSE [HandlerResult(200, "") EXCEPT
                  !.files = d.files, !.media = [media EXCEPT ![id].deleted = TRUE]]

\* ------------------------------------------------------- workspace handlers
AddUserToWorkspace(workspace_id, req) ==
    IF workspace_id \notin Workspaces
    THEN HandlerResult(404, "Workspace not found")
    ELSE IF req.user_id \notin Live(users)
    THEN HandlerResult(404, "User not found")
    ELSE IF CountUserWorkspaces(req.user_id, workspace_id) > 0
    THEN HandlerResult(400, "User is already in this workspace")
    ELSE IF \E i \in DOMAIN user_workspaces :
               /\ user_workspaces[i].user_id = req.user_id
               /\ user_workspaces[i].workspace_id = workspace_id
    THEN HandlerResult(500, "Failed to add user to workspace")
    ELSE [HandlerResult(201, "") EXCEPT
             !.user_workspaces = Append(user_workspaces, [user_id |-> req.user_id,
                                                          workspace_id |-> workspace_id,
                                                          deleted |-> FALSE])]

RemoveUserFromWorkspace(workspace_id, user_id) ==
    IF CountUserWorkspaces(user_id, workspace_id) = 0
    THEN HandlerResult(404, "User is not in this workspace")
    ELSE [HandlerResult(200, "") EXCEPT
             !.user_workspaces = [i \in DOMAIN user_workspaces |->
                                     IF /\ user_workspaces[i].user_id = user_id
                                        /\ user_workspaces[i].workspace_id = workspace_id
                                     THEN [user_workspaces[i] EXCEPT !.deleted = TRUE]
                                     ELSE user_workspaces[i]]]

\* ----------------------------------------------------------------- requests
UserIds == 1..Cardinality(Emails)

LoginEmails == Emails \cup {"nobody@floe.cms", ""}

LoginPasswords == Passwords \cup {""}

LoginInputs == [email : LoginEmails, password : LoginPasswords]

LoginFaults == {"none", "lookup", "insert"}

QueryFaults == {"none", "query"}

RefreshInputs == TokenStrings \cup {0}

Bearer(token, origin) == [scheme |-> "Bearer", token |-> token, origin |-> origin]

\* What an attacker makes of a token without the secret: one claim altered
\* under the old signature, the header's algorithm altered, the signature
\* stripped, or the whole re-signed with another key.
Tamperings(tok) ==
    {[tok EXCEPT !.claims.role_id = 1, !.claims.role_name = "admin"],
     [tok EXCEPT !.claims.user_id = (tok.claims.user_id % Cardinality(Emails)) + 1],
     [tok EXCEPT !.claims.exp = tok.claims.exp + 1],
     [tok EXCEPT !.alg = "HS384"],
     [tok EXCEPT !.alg = "none", !.sig = HMAC("none", "", tok.claims)],
     SignedString("HS256", AttackerKey, tok.claims)} \ {tok}

ForgedClaims ==
    [user_id |-> 1, email |-> AdminEmail, role_id |-> 1, role_name |-> "admin", exp |-> now + AccessExp]

\* The Authorization header of the client whose tokens are held.
HeldHeaders ==
    IF held.access_token = EmptyToken THEN {NoHeader} ELSE {NoHeader, Bearer(held.access_token, "issued")}

\* The Authorization headers a request may carry: none, the held token, the
\* held token under another scheme, the same claims signed with the secret
\* under another HMAC method, a tampered copy of the held token, a forged token.
HeaderInputs ==
    HeldHeaders
    \cup {Bearer(SignedString("HS256", AttackerKey, ForgedClaims), "forged")}
    \cup (IF held.access_token = EmptyToken THEN {}
          ELSE {[scheme |-> "Basic", token |-> held.access_token, origin |-> "issued"],
                Bearer(SignedString("HS384", jwtSecret, held.access_token.claims), "resigned")}
               \cup {Bearer(t, "tampered") : t \in Tamperings(held.access_token)})

\* The calls of the Session Manager followed step by step: two RefreshToken
\* calls and one RevokeToken call, each served by its own goroutine.
RefreshCalls == {"refresh1", "refresh2"}

\* The admin client between requests: no request awaits a refresh, no call
\* to /api/auth/refresh has been made for the request at hand.
IdleClient == [pc |-> "idle", refreshes |-> 0]

\* localStorage after removeItem("accessToken") and removeItem("refreshToken").
ClearedTokens == [access_token |-> EmptyToken, refresh_token |-> 0]

\* axios.defaults.headers.common["Authorization"], set from the stored
\* access token.
ClientHeader == IF held.access_token = EmptyToken THEN NoHeader ELSE Bearer(held.access_token, "issued")

\* The status GET /api/me answers to the client.
MeStatus ==
    LET a == AuthMiddleware(ClientHeader) IN
    IF a.status # 200 THEN a.status ELSE GetCurrentUser(a.claims).status

\* The status POST /api/auth/refresh answers to the stored refresh token.
RefreshStatus == AuthHandlerRefreshToken([refresh_token |-> held.refresh_token], "none").status

\* Two DeleteUser requests, each served by its own goroutine.
DeleteCalls == {"delete1", "delete2"}

IdleDelete == [pc |-> "idle", id |-> 0, status |-> 0]

CallIds == RefreshCalls \cup {"revoke"}

\* A call not yet made. load is what the call's query returned, result what
\* the call returns; afterCommit and unexpired record, for a RefreshToken
\* call, whether at the time of its query a RevokeToken of the token had
\* committed and whether a row held the token unexpired.
IdleCall ==
    [pc |-> "idle", token |-> 0, load |-> [found |-> FALSE, user |-> ZeroUser],
     result |-> [access_token |-> EmptyToken, err |-> ""], afterCommit |-> FALSE, unexpired |-> FALSE]

\* A query that takes the row for itself: it finds nothing while another
\* RefreshToken call has loaded the same token and not yet returned.
RefreshLoadExclusive(token) ==
    IF \/ ValidRefreshRows(token) = {}
       \/ \E c \in RefreshCalls : calls[c].pc = "loaded" /\ calls[c].token = token
    THEN [found |-> FALSE, user |-> ZeroUser]
    ELSE [found |-> TRUE, user |-> PreloadUser(refresh_tokens[First(ValidRefreshRows(token))].user_id)]

\* The query of Manager.RefreshToken: the unrevoked, unexpired row of the
\* token with its user and the user's role, or record not found.
RefreshLoad(token) ==
    IF ValidRefreshRows(token) = {}
    THEN [found |-> FALSE, user |-> ZeroUser]
    ELSE [found |-> TRUE, user |-> PreloadUser(refresh_tokens[First(ValidRefreshRows(token))].user_id)]

Respond(op, status) == [op |-> op, status |-> status]

\* ------------------------------------------------------------------ actions
\* EnsureAdminExists on an empty store: the admin user, the default workspace
\* and the admin's membership of it.
Init ==
    /\ now = 0
    /\ users = <<[id |-> 1, email |-> AdminEmail, password_hash |-> HashPassword(AdminPassword),
                  role_id |-> 1, active |-> TRUE, deleted |-> FALSE]>>
    /\ refresh_tokens = <<>>
    /\ user_workspaces = <<[user_id |-> 1, workspace_id |-> 1, deleted |-> FALSE]>>
    /\ contents = <<>>
    /\ content_types = <<>>
    /\ media = <<>>
    /\ files = {}
    /\ held = [access_token |-> EmptyToken, refresh_token |-> 0]
    /\ revokedOk = {}
    /\ resp = Respond("none", 0)
    /\ calls = [c \in CallIds |-> IdleCall]
    /\ workspaces = <<[id |-> 1, slug |-> "default", deleted |-> FALSE]>>
    /\ deletes = [c \in DeleteCalls |-> IdleDelete]
    /\ client = IdleClient

Tick ==
    /\ now < MaxTime
    /\ now' = now + 1
    /\ resp' = Respond("Tick", 0)
    /\ UNCHANGED <<client, deletes, workspaces, calls, users, refresh_tokens, user_workspaces, contents, content_types, media, files, held, revokedOk>>

\* POST /api/auth/login. keep: the request is the client's whose tokens are held.
PostLogin(req, fault, keep) ==
    LET r == AuthHandlerLogin(req, fault) IN
    /\ r.status = 200 => Len(refresh_tokens) < MaxTokens
    /\ refresh_tokens' = r.rows
    /\ held' = IF r.status = 200 /\ keep
               THEN [access_token |-> r.access_token, refresh_token |-> r.refresh_token]
               ELSE held
    /\ resp' = Respond("Login", r.status)
    /\ UNCHANGED <<client, deletes, workspaces, calls, now, users, user_workspaces, contents, content_types, media, files, revokedOk>>

\* POST /api/auth/refresh. The client whose tokens are held refreshes with the
\* refresh token it holds and replaces its access token.
PostRefresh(req, fault, keep) ==
    LET r == AuthHandlerRefreshToken(req, fault) IN
    /\ keep => req.refresh_token = held.refresh_token
    /\ refresh_tokens' = r.rows
    /\ held' = IF r.status = 200 /\ keep THEN [held EXCEPT !.access_token = r.access_token] ELSE held
    /\ resp' = Respond("RefreshToken", r.status)
    /\ UNCHANGED <<client, deletes, workspaces, calls, now, users, user_workspaces, contents, content_types, media, files, revokedOk>>

\* AuthHandler.Logout, once the request is admitted.
Logout(req, fault) ==
    LET r == AuthHandlerLogout(req, fault) IN
    /\ refresh_tokens' = r.rows
    /\ revokedOk' = IF r.status = 200 THEN revokedOk \cup {req.refresh_token} ELSE revokedOk
    /\ resp' = Respond("Logout", r.status)
    /\ UNCHANGED <<client, deletes, workspaces, calls, now, users, user_workspaces, contents, content_types, media, files, held>>

\* POST /api/auth/logout, behind AuthMiddleware.
PostLogout(header, req, fault) ==
    LET a == AuthMiddleware(header) IN
    IF a.status # 200
    THEN /\ resp' = Respond("Logout", a.status)
         /\ UNCHANGED <<client, deletes, workspaces, calls, now, users, refresh_tokens, user_workspaces, contents, content_types, media, files, held, revokedOk>>
    ELSE Logout(req, fault)

\* GET /api/me, behind AuthMiddleware.
GetMe(header) ==
    LET a == AuthMiddleware(header) IN
    /\ resp' = IF a.status # 200 THEN Respond("GetCurrentUser", a.status)
               ELSE Respond("GetCurrentUser", GetCurrentUser(a.claims).status)
    /\ UNCHANGED <<client, deletes, workspaces, calls, now, users, refresh_tokens, user_workspaces, contents, content_types, media, files, held, revokedOk>>

\* A handler of /api/users, once the request is admitted.
UsersHandler(op, r) ==
    /\ users' = r.users
    /\ resp' = Respond(op, r.status)
    /\ UNCHANGED <<client, deletes, workspaces, calls, now, refresh_tokens, user_workspaces, contents, content_types, media, files, held, revokedOk>>

\* /api/users, behind AuthMiddleware and AdminOnly.
UsersRoute(header, op, r) ==
    LET g == AdminRoute(header) IN
    IF g.status # 200
    THEN /\ resp' = Respond(op, g.status)
         /\ UNCHANGED <<client, deletes, workspaces, calls, now, users, refresh_tokens, user_workspaces, contents, content_types, media, files, held, revokedOk>>
    ELSE UsersHandler(op, r)

CreateUserInputs ==
    [email : {OtherEmail, AdminEmail}, password : {OtherPassword, AdminPassword}, role_id : RoleIds]

RoleChanges == [email : {""}, role_id : RoleIds, active : {"nil"}]

ActiveChanges == [email : {""}, role_id : {0}, active : {"true", "false"}]

EmailChanges == [email : {OtherEmail}, role_id : {0}, active : {"nil"}]

\* The session store: logins, refreshes and revocations of the bootstrap
\* admin's sessions while that account is re-roled, deactivated or deleted.
SessionNext ==
    \/ Tick
    \/ \E fault \in LoginFaults :
          PostLogin([email |-> AdminEmail, password |-> AdminPassword], fault, FALSE)
    \/ \E t \in RefreshInputs, fault \in QueryFaults : PostRefresh([refresh_token |-> t], fault, FALSE)
    \/ \E t \in RefreshInputs, fault \in QueryFaults : Logout([refresh_token |-> t], fault)
    \/ \E req \in RoleChanges \cup ActiveChanges : UsersHandler("UpdateUser", UpdateUser(1, req))
    \/ UsersHandler("DeleteUser", DeleteUser(1))

SpecSession == Init /\ [][SessionNext]_vars

\* Login against every users table the user handlers produce.
LoginNext ==
    \/ \E req \in LoginInputs, fault \in LoginFaults : PostLogin(req, fault, FALSE)
    \/ \E req \in CreateUserInputs : UsersHandler("CreateUser", CreateUser(req))
    \/ \E id \in UserIds, req \in RoleChanges \cup ActiveChanges \cup EmailChanges :
          UsersHandler("UpdateUser", UpdateUser(id, req))
    \/ \E id \in UserIds : UsersHandler("DeleteUser", DeleteUser(id))

SpecLogin == Init /\ [][LoginNext]_vars

\* The callers of /api/me: the claims of a token of each account.
SelfClaims == {[ZeroClaims EXCEPT !.user_id = i] : i \in UserIds}

CurrentUserEdits == [email : {"", AdminEmail, OtherEmail, "nobody@floe.cms", "not-an-address"}]

PasswordChanges == [old_password : LoginPasswords, new_password : LoginPasswords]

\* The accounts under every request of /api/users and of /api/me that writes
\* the users table.
AccountsNext ==
    \/ \E req \in CreateUserInputs : UsersHandler("CreateUser", CreateUser(req))
    \/ \E id \in UserIds, req \in RoleChanges \cup ActiveChanges :
          UsersHandler("UpdateUser", UpdateUser(id, req))
    \/ \E id \in UserIds : UsersHandler("DeleteUser", DeleteUser(id))
    \/ \E claims \in SelfClaims, req \in CurrentUserEdits :
          UsersHandler("UpdateCurrentUser", UpdateCurrentUser(claims, req))
    \/ \E claims \in SelfClaims, req \in PasswordChanges :
          UsersHandler("ChangePassword", ChangePassword(claims, req))

SpecAccounts == Init /\ [][AccountsNext]_vars

\* main: the server starts again on the stored tables.
Restart ==
    LET r == EnsureAdminExists(AdminEmail, AdminPassword) IN
    /\ users' = r.users
    /\ workspaces' = r.workspaces
    /\ user_workspaces' = r.user_workspaces
    /\ resp' = Respond("EnsureAdminExists", IF r.err = "" THEN 0 ELSE 1)
    /\ UNCHANGED <<client, deletes, calls, now, refresh_tokens, contents, content_types, media, files, held, revokedOk>>

\* A handler of /api/workspaces that writes the workspaces table.
WorkspacesHandler(op, r) ==
    /\ workspaces' = r.workspaces
    /\ resp' = Respond(op, r.status)
    /\ UNCHANGED <<client, deletes, calls, now, users, refresh_tokens, user_workspaces, contents, content_types, media, files, held, revokedOk>>

SlugChanges == [slug : {"", "default", "main"}]

\* Restarts of the server between requests that write users and workspaces.
BootNext ==
    \/ Restart
    \/ \E req \in CreateUserInputs : UsersHandler("CreateUser", CreateUser(req))
    \/ \E id \in UserIds : UsersHandler("DeleteUser", DeleteUser(id))
    \/ \E claims \in SelfClaims, req \in CurrentUserEdits :
          UsersHandler("UpdateCurrentUser", UpdateCurrentUser(claims, req))
    \/ \E id \in DOMAIN workspaces, req \in SlugChanges :
          WorkspacesHandler("UpdateWorkspace", UpdateWorkspace(id, req))
    \/ \E id \in DOMAIN workspaces : WorkspacesHandler("DeleteWorkspace", DeleteWorkspace(id))

SpecBoot == Init /\ [][BootNext]_vars

\* UserHandler.DeleteUser, first step: the user is fetched and, for an
\* admin, the admins are counted; the request is answered when either check
\* refuses it.
DeleteUserCheck(c, id) ==
    LET r == DeleteUser(id) IN
    /\ deletes[c].pc = "idle"
    /\ IF r.status # 200
       THEN /\ deletes' = [deletes EXCEPT ![c] = [pc |-> "done", id |-> id, status |-> r.status]]
            /\ resp' = Respond("DeleteUser", r.status)
       ELSE /\ deletes' = [deletes EXCEPT ![c] = [pc |-> "checked", id |-> id, status |-> 0]]
            /\ UNCHANGED resp
    /\ UNCHANGED <<client, workspaces, calls, now, users, refresh_tokens, user_workspaces, contents, content_types, media, files, held, revokedOk>>

\* UserHandler.DeleteUser, second step: the delete and the answer.
DeleteUserDelete(c) ==
    /\ deletes[c].pc = "checked"
    /\ users' = [users EXCEPT ![deletes[c].id].deleted = TRUE]
    /\ deletes' = [deletes EXCEPT ![c].pc = "done", ![c].status = 200]
    /\ resp' = Respond("DeleteUser", 200)
    /\ UNCHANGED <<client, workspaces, calls, now, refresh_tokens, user_workspaces, contents, content_types, media, files, held, revokedOk>>

\* Two DeleteUser requests interleaved, among the requests that create users.
DeleteRaceNext ==
    \/ \E req \in CreateUserInputs : UsersHandler("CreateUser", CreateUser(req))
    \/ \E c \in DeleteCalls, id \in UserIds : DeleteUserCheck(c, id)
    \/ \E c \in DeleteCalls : DeleteUserDelete(c)

SpecDeleteRace == Init /\ [][DeleteRaceNext]_vars

\* The client sends GET /api/me. On a 401 the interceptor marks the request
\* (_retry) and, with a stored refresh token, posts it to /api/auth/refresh
\* and awaits the answer; without one it clears the storage and redirects.
ClientRequest ==
    /\ client.pc = "idle"
    /\ resp' = Respond("GetCurrentUser", MeStatus)
    /\ IF MeStatus # 401 THEN UNCHANGED <<client, held>>
       ELSE IF held.refresh_token # 0
       THEN /\ client' = [pc |-> "refreshing", refreshes |-> 1]
            /\ UNCHANGED held
       ELSE /\ client' = [pc |-> "login", refreshes |-> 0]
            /\ held' = ClearedTokens
    /\ UNCHANGED <<deletes, workspaces, calls, now, users, refresh_tokens, user_workspaces, contents, content_types, media, files, revokedOk>>

\* The answer to the call to /api/auth/refresh. The call goes through the
\* same axios instance: a 401 runs the interceptor again, on the refresh
\* request, which carries no _retry mark, while the refresh token is still
\* stored, so the interceptor posts it to /api/auth/refresh once more and
\* awaits that answer. A 200 stores the new access token and retries the
\* request. Any other error is caught: storage cleared, page redirected.
ClientRefreshAnswer ==
    LET r == AuthHandlerRefreshToken([refresh_token |-> held.refresh_token], "none") IN
    /\ client.pc = "refreshing"
    /\ resp' = Respond("RefreshToken", r.status)
    /\ IF r.status = 200
       THEN /\ held' = [held EXCEPT !.access_token = r.access_token]
            /\ client' = [client EXCEPT !.pc = "retrying"]
       ELSE IF r.status = 401
       THEN /\ client.refreshes < MaxRefreshCalls
            /\ client' = [client EXCEPT !.refreshes = @ + 1]
            /\ UNCHANGED held
       ELSE /\ held' = ClearedTokens
            /\ client' = [client EXCEPT !.pc = "login"]
    /\ UNCHANGED <<deletes, workspaces, calls, now, users, refresh_tokens, user_workspaces, contents, content_types, media, files, revokedOk>>

\* The answer to the retried request: it carries the _retry mark, so the
\* interceptor hands a 401 on to the caller.
ClientRetryAnswer ==
    /\ client.pc = "retrying"
    /\ resp' = Respond("GetCurrentUser", MeStatus)
    /\ client' = IdleClient
    /\ UNCHANGED <<deletes, workspaces, calls, now, users, refresh_tokens, user_workspaces, contents, content_types, media, files, held, revokedOk>>

\* The admin client against the server: its logins, its requests and their
\* refreshes, while the clock runs and refresh tokens are revoked.
ClientNext ==
    \/ Tick
    \/ /\ client.pc = "idle"
       /\ PostLogin([email |-> AdminEmail, password |-> AdminPassword], "none", TRUE)
    \/ \E t \in TokenStrings : Logout([refresh_token |-> t], "none")
    \/ ClientRequest
    \/ ClientRefreshAnswer
    \/ ClientRetryAnswer

SpecClient == Init /\ [][ClientNext]_vars

\* The bootstrap state after the admin has created an editor account.
InitAccess ==
    /\ now = 0
    /\ users = <<[id |-> 1, email |-> AdminEmail, password_hash |-> HashPassword(AdminPassword),
                  role_id |-> 1, active |-> TRUE, deleted |-> FALSE],
                 [id |-> 2, email |-> OtherEmail, password_hash |-> HashPassword(OtherPassword),
                  role_id |-> 2, active |-> TRUE, deleted |-> FALSE]>>
    /\ refresh_tokens = <<>>
    /\ user_workspaces = <<[user_id |-> 1, workspace_id |-> 1, deleted |-> FALSE]>>
    /\ contents = <<>>
    /\ content_types = <<>>
    /\ media = <<>>
    /\ files = {}
    /\ held = [access_token |-> EmptyToken, refresh_token |-> 0]
    /\ revokedOk = {}
    /\ resp = Respond("none", 0)
    /\ calls = [c \in CallIds |-> IdleCall]
    /\ workspaces = <<[id |-> 1, slug |-> "default", deleted |-> FALSE]>>
    /\ deletes = [c \in DeleteCalls |-> IdleDelete]
    /\ client = IdleClient

\* One client's access token through the protected routes, while roles change
\* and its refresh token is revoked. The client logs in when it holds no token.
AccessNext ==
    \/ Tick
    \/ /\ held.access_token = EmptyToken
       /\ \E req \in [email : Emails, password : Passwords] : PostLogin(req, "none", TRUE)
    \/ PostRefresh([refresh_token |-> held.refresh_token], "none", TRUE)
    \/ \E header \in HeldHeaders : PostLogout(header, [refresh_token |-> held.refresh_token], "none")
    \/ \E header \in HeaderInputs : GetMe(header)
    \/ \E header \in HeaderInputs, id \in UserIds, req \in RoleChanges :
          UsersRoute(header, "UpdateUser", UpdateUser(id, req))

SpecAccess == InitAccess /\ [][AccessNext]_vars

\* A handler of /api/content, /api/content-types, /api/media or
\* /api/workspaces/{id}/users, once the request is admitted.
ItemsHandler(op, r) ==
    /\ contents' = r.contents
    /\ content_types' = r.content_types
    /\ media' = r.media
    /\ files' = r.files
    /\ user_workspaces' = r.user_workspaces
    /\ resp' = Respond(op, r.status)
    /\ UNCHANGED <<client, deletes, workspaces, calls, now, users, refresh_tokens, held, revokedOk>>

\* The claims AuthMiddleware hands to a handler: those of an unexpired access
\* token issued to a stored user, with the role the user had at issuance.
CallerClaims ==
    UNION {{generateAccessToken([users[i] EXCEPT !.role_id = r]).claims :
               r \in {users[i].role_id, 3}} : i \in DOMAIN users}

ContentInputs == [workspace_id : {0, 1}, title : {"Hello"}, slug : {""}, body : {"text"}, status : {""}]

ContentEdits == [title : {"Edited"}, slug : {""}, body : {""}, status : {""}]

ItemIds == 1..MaxItems

Items == Len(contents) + Len(content_types) + Len(media)

\* Content, content types and media of the default workspace, and the
\* editor's membership of it.
ItemsNext ==
    \/ \E claims \in CallerClaims, req \in ContentInputs :
          /\ Items < MaxItems
          /\ ItemsHandler("CreateContent", CreateContent(claims, req, "none"))
    \/ \E claims \in CallerClaims, id \in ItemIds, req \in ContentEdits :
          ItemsHandler("UpdateContent", UpdateContent(claims, id, req, "none"))
    \/ \E claims \in CallerClaims, id \in ItemIds : ItemsHandler("GetContent", GetContent(claims, id, "none"))
    \/ \E claims \in CallerClaims, w \in Workspaces :
          ItemsHandler("ListContent", ListContent(claims, w, "none"))
    \/ \E claims \in CallerClaims, id \in ItemIds :
          ItemsHandler("DeleteContent", DeleteContent(claims, id, "none"))
    \/ \E claims \in CallerClaims, w \in {0, 1} :
          /\ Items < MaxItems
          /\ ItemsHandler("CreateContentType", CreateContentType(claims, [workspace_id |-> w, name |-> "Article"], "none"))
    \/ \E claims \in CallerClaims, w \in Workspaces :
          ItemsHandler("ListContentTypes", ListContentTypes(claims, w, "none"))
    \/ \E claims \in CallerClaims, w \in {0, 1} :
          /\ Items < MaxItems
          /\ ItemsHandler("UploadMedia", UploadMedia(claims, [workspace_id |-> w, file |-> TRUE], "none"))
    \/ \E claims \in CallerClaims, w \in Workspaces : ItemsHandler("ListMedia", ListMedia(claims, w, "none"))
    \/ \E claims \in CallerClaims, id \in ItemIds :
          ItemsHandler("DeleteMedia", DeleteMedia(claims, id, "none"))
    \/ \E w \in Workspaces : ItemsHandler("AddUserToWorkspace", AddUserToWorkspace(w, [user_id |-> 2]))
    \/ \E w \in Workspaces : ItemsHandler("RemoveUserFromWorkspace", RemoveUserFromWorkspace(w, 2))

SpecItems == InitAccess /\ [][ItemsNext]_vars

\* Manager.RefreshToken, first step: the query.
RefreshLookup(c, t) ==
    /\ calls[c].pc = "idle"
    /\ calls' = [calls EXCEPT ![c] =
                    [IdleCall EXCEPT !.pc = "loaded", !.token = t, !.load = RefreshLoad(t),
                                     !.afterCommit = t \in revokedOk,
                                     !.unexpired = \E i \in DOMAIN refresh_tokens :
                                                      /\ refresh_tokens[i].token = t
                                                      /\ now < refresh_tokens[i].expires_at]]
    /\ UNCHANGED <<client, deletes, workspaces, now, users, refresh_tokens, user_workspaces, contents, content_types, media, files, held, revokedOk, resp>>

\* Manager.RefreshToken, second step: the error, or an access token for the
\* user as loaded; AuthHandler.RefreshToken answers.
RefreshReturn(c) ==
    /\ calls[c].pc = "loaded"
    /\ calls' = [calls EXCEPT ![c].pc = "done",
                              ![c].result =
                                  IF calls[c].load.found
                                  THEN [access_token |-> generateAccessToken(calls[c].load.user), err |-> ""]
                                  ELSE [access_token |-> EmptyToken, err |-> "invalid refresh token"]]
    /\ resp' = Respond("RefreshToken", IF calls[c].load.found THEN 200 ELSE 401)
    /\ UNCHANGED <<client, deletes, workspaces, now, users, refresh_tokens, user_workspaces, contents, content_types, media, files, held, revokedOk>>

\* Manager.RevokeToken, first step: the UPDATE commits.
RevokeUpdate(t) ==
    LET r == RevokeToken(t, "none") IN
    /\ calls["revoke"].pc = "idle"
    /\ refresh_tokens' = r.rows
    /\ revokedOk' = IF r.err = "" THEN revokedOk \cup {t} ELSE revokedOk
    /\ calls' = [calls EXCEPT !["revoke"] =
                    [IdleCall EXCEPT !.pc = "loaded", !.token = t, !.result.err = r.err]]
    /\ UNCHANGED <<client, deletes, workspaces, now, users, user_workspaces, contents, content_types, media, files, held, resp>>

\* Manager.RevokeToken, second step: the return; AuthHandler.Logout answers.
RevokeReturn ==
    /\ calls["revoke"].pc = "loaded"
    /\ calls' = [calls EXCEPT !["revoke"].pc = "done"]
    /\ resp' = Respond("Logout", IF calls["revoke"].result.err = "" THEN 200 ELSE 500)
    /\ UNCHANGED <<client, deletes, workspaces, now, users, refresh_tokens, user_workspaces, contents, content_types, media, files, held, revokedOk>>

\* The token strings the logins so far have handed out.
StoredTokens == {refresh_tokens[i].token : i \in DOMAIN refresh_tokens}

\* Two RefreshToken calls and a RevokeToken call on tokens that logins have
\* handed out, interleaved with logins and the clock.
RaceNext ==
    \/ Tick
    \/ PostLogin([email |-> AdminEmail, password |-> AdminPassword], "none", FALSE)
    \/ \E c \in RefreshCalls, t \in StoredTokens : RefreshLookup(c, t)
    \/ \E c \in RefreshCalls : RefreshReturn(c)
    \/ \E t \in StoredTokens : RevokeUpdate(t)
    \/ RevokeReturn

SpecRace == Init /\ [][RaceNext]_vars

\* The admin's claims, as AuthMiddleware hands them to the content handlers.
AdminClaims == generateAccessToken(users[1]).claims

WorkspaceSlugs == {"default", "blog"}

ContentSlugs == {"hello", "post"}

PublishInputs ==
    [workspace_id : {1, 2}, title : {"Hello"}, slug : {""}, body : {"text"}, status : {"", "published"}]

PublishEdits == [title : {""}, slug : {""}, body : {""}, status : {"published", "archived"}]

\* The contents and the workspaces created since the server first started.
PublicItems == Len(contents) + Len(workspaces) - 1

\* The public content routes beside the requests that write contents and
\* workspaces.
PublicNext ==
    \/ \E w \in WorkspaceSlugs : ItemsHandler("GetPublishedContent", GetPublishedContent(w))
    \/ \E w \in WorkspaceSlugs, slug \in ContentSlugs :
          ItemsHandler("GetContentBySlug", GetContentBySlug(w, slug))
    \/ \E req \in PublishInputs :
          /\ PublicItems < MaxItems
          /\ ItemsHandler("CreateContent", CreateContent(AdminClaims, req, "none"))
    \/ \E id \in ItemIds, req \in PublishEdits :
          ItemsHandler("UpdateContent", UpdateContent(AdminClaims, id, req, "none"))
    \/ \E id \in ItemIds : ItemsHandler("DeleteContent", DeleteContent(AdminClaims, id, "none"))
    \/ /\ PublicItems < MaxItems
       /\ WorkspacesHandler("CreateWorkspace", CreateWorkspace([name |-> "Blog", slug |-> ""]))
    \/ \E id \in DOMAIN workspaces, req \in [slug : WorkspaceSlugs] :
          WorkspacesHandler("UpdateWorkspace", UpdateWorkspace(id, req))
    \/ \E id \in DOMAIN workspaces : WorkspacesHandler("DeleteWorkspace", DeleteWorkspace(id))

SpecPublic == Init /\ [][PublicNext]_vars

UploadFaults == {"none", "save", "insert"}

DeleteFaults == {"none", "delete"}

\* Uploads and deletes of media while the storage or the store may fail.
MediaNext ==
    \/ \E claims \in CallerClaims, w \in {0, 1}, file \in BOOLEAN, fault \in UploadFaults :
          /\ Len(media) < MaxItems
          /\ ItemsHandler("UploadMedia", UploadMedia(claims, [workspace_id |-> w, file |-> file], fault))
    \/ \E claims \in CallerClaims, w \in Workspaces, fault \in QueryFaults :
          ItemsHandler("ListMedia", ListMedia(claims, w, fault))
    \/ \E claims \in CallerClaims, id \in ItemIds, fault \in DeleteFaults :
          ItemsHandler("DeleteMedia", DeleteMedia(claims, id, fault))

SpecMedia == InitAccess /\ [][MediaNext]_vars

\* ------------------------------------------------------------------ claims
\* C1: once RevokeToken(t) has returned success, RefreshToken(t) fails with
\* "invalid refresh token" and issues no access token, in every later state,
\* whatever logins, refreshes, revocations and role changes came in between.
C1_RevokedNeverRefreshes ==
    \A t \in revokedOk, fault \in QueryFaults :
        /\ RefreshToken(t, fault).err = "invalid refresh token"
        /\ RefreshToken(t, fault).access_token = EmptyToken
        /\ AuthHandlerRefreshToken([refresh_token |-> t], fault).status = 401
        /\ AuthHandlerRefreshToken([refresh_token |-> t], fault).access_token = EmptyToken

\* A refresh of a revoked, unexpired token was refused after a later login
\* and a role change.
C1_Witness ==
    /\ resp = Respond("RefreshToken", 401)
    /\ \E t \in revokedOk, i \in DOMAIN refresh_tokens :
          refresh_tokens[i].token = t /\ refresh_tokens[i].expires_at > now
    /\ Len(refresh_tokens) > 1
    /\ \A t \in TokenStrings : ValidRefreshRows(t) = {}
    /\ users[1].role_id # 1

\* C10: RefreshToken leaves the refresh-token store as it found it, so the
\* token it used is still unrevoked with the same expiry, and RefreshToken(t)
\* succeeds exactly while an unrevoked, unexpired row holds t.
C10_RefreshKeepsStore ==
    \A t \in RefreshInputs :
        /\ \A fault \in QueryFaults :
              /\ RefreshToken(t, fault).rows = refresh_tokens
              /\ AuthHandlerRefreshToken([refresh_token |-> t], fault).rows = refresh_tokens
        /\ RefreshToken(t, "none").err = ""
              <=> \E i \in DOMAIN refresh_tokens :
                     /\ refresh_tokens[i].token = t
                     /\ ~refresh_tokens[i].revoked
                     /\ now < refresh_tokens[i].expires_at

\* A refresh has succeeded and the token it used can be used again.
C10_Witness ==
    /\ resp = Respond("RefreshToken", 200)
    /\ \E t \in TokenStrings :
          /\ RefreshToken(t, "none").err = ""
          /\ refresh_tokens[t].expires_at = now + 1

\* C2: ValidateToken returns a token's claims if and only if the token was
\* signed with the configured secret and now is strictly before its expiry;
\* at exp = now it is rejected, and so is every token altered after signing
\* or signed with another key.
C2_ValidateToken ==
    \A header \in HeaderInputs :
        header.scheme # "" =>
            LET v == ValidateToken(header.token) IN
            /\ v.ok <=> /\ header.origin \in {"issued", "resigned"}
                        /\ now < header.token.claims.exp
            /\ v.ok => v.claims = header.token.claims
            /\ ~v.ok => v.claims = ZeroClaims

\* The held token was presented at its expiry time and refused.
C2_Witness ==
    /\ held.access_token # EmptyToken
    /\ held.access_token.claims.exp = now
    /\ resp = Respond("GetCurrentUser", 401)

\* C3: for every stored active user, Login with the stored email and a
\* password that verifies against the stored hash succeeds, and ValidateToken
\* of the access token returned yields the user's id, email, role id and role
\* name as stored at login.
C3_LoginClaims ==
    \A i \in Live(users), p \in LoginPasswords :
        (users[i].active /\ CompareHashAndPassword(users[i].password_hash, p)) =>
            LET r == Login(users[i].email, p, "none")
                v == ValidateToken(r.access_token)
            IN /\ r.err = ""
               /\ r.refresh_token # 0
               /\ AuthHandlerLogin([email |-> users[i].email, password |-> p], "none").status = 200
               /\ v.ok
               /\ v.claims.user_id = users[i].id
               /\ v.claims.email = users[i].email
               /\ v.claims.role_id = users[i].role_id
               /\ v.claims.role_name = Roles[users[i].role_id].name

\* A created user whose role is not admin has logged in.
C3_Witness ==
    /\ resp = Respond("Login", 200)
    /\ \E i \in DOMAIN refresh_tokens :
          /\ refresh_tokens[i].user_id = 2
          /\ 2 \in Live(users)
          /\ users[2].active
          /\ users[2].role_id # 1

\* C4: Login with an active user's email and a password that does not match
\* has the outcome of Login with an email no user has: the same "invalid
\* credentials" error and status, no token, no refresh-token row.
C4_SameOutcome ==
    \A i \in Live(users), p \in LoginPasswords, fault \in LoginFaults :
        (users[i].active /\ ~CompareHashAndPassword(users[i].password_hash, p)) =>
            /\ Login(users[i].email, p, fault) = Login("nobody@floe.cms", p, fault)
            /\ AuthHandlerLogin([email |-> users[i].email, password |-> p], fault)
                  = AuthHandlerLogin([email |-> "nobody@floe.cms", password |-> p], fault)
            /\ Login(users[i].email, p, "none").err = "invalid credentials"
            /\ Login(users[i].email, p, "none").access_token = EmptyToken
            /\ Login(users[i].email, p, "none").refresh_token = 0
            /\ Login(users[i].email, p, "none").rows = refresh_tokens

\* A login was refused while a second active user exists whose password is
\* not the one of the first.
C4_Witness ==
    /\ resp = Respond("Login", 401)
    /\ 2 \in Live(users)
    /\ users[2].active
    /\ Login(users[2].email, AdminPassword, "none").err = "invalid credentials"
    /\ refresh_tokens # <<>>

\* C5: an admin-only route runs its handler only for a request with an
\* unexpired token signed by the server whose role_name is admin; without
\* such a token the answer is 401 whatever role the token names, and with a
\* valid token of another role it is 403.
C5_AdminRoutes ==
    \A header \in HeaderInputs :
        LET valid == /\ header.scheme = "Bearer"
                     /\ header.origin \in {"issued", "resigned"}
                     /\ now < header.token.claims.exp
            g == AdminRoute(header)
        IN /\ ~valid => g.status = 401
           /\ (valid /\ header.token.claims.role_name # "admin") => g.status = 403
           /\ g.status = 200 <=> (valid /\ header.token.claims.role_name = "admin")

\* An editor's valid token was refused on /api/users.
C5_Witness ==
    /\ resp = Respond("UpdateUser", 403)
    /\ ValidateToken(held.access_token).ok
    /\ held.access_token.claims.role_name = "editor"

\* C6: on GetContent, ListContent, CreateContent, the content-type list and
\* create, ListMedia and UploadMedia, a caller whose token role is not admin
\* is served only if a membership row exists for the caller and the
\* workspace the request targets.
C6_MembershipRequired ==
    \A claims \in CallerClaims :
        claims.role_name # "admin" =>
            /\ \A w \in Workspaces :
                  CountUserWorkspaces(claims.user_id, w) = 0 =>
                      /\ ListContent(claims, w, "none").status \notin {200, 201}
                      /\ CreateContent(claims, [workspace_id |-> w, title |-> "Hello", slug |-> "", body |-> "text", status |-> ""], "none").status
                            \notin {200, 201}
                      /\ ListContentTypes(claims, w, "none").status \notin {200, 201}
                      /\ CreateContentType(claims, [workspace_id |-> w, name |-> "Article"], "none").status
                            \notin {200, 201}
                      /\ ListMedia(claims, w, "none").status \notin {200, 201}
                      /\ UploadMedia(claims, [workspace_id |-> w, file |-> TRUE], "none").status
                            \notin {200, 201}
            /\ \A id \in Live(contents) :
                  CountUserWorkspaces(claims.user_id, contents[id].workspace_id) = 0 =>
                      GetContent(claims, id, "none").status \notin {200, 201}

\* C7: UpdateContent, DeleteContent and DeleteMedia leave the tables and the
\* files as they are unless the caller's token role is admin or the caller is
\* the item's author or uploader; any other caller of an existing item gets
\* 403.
C7_AuthorOrAdmin ==
    \A claims \in CallerClaims, fault \in {"none", "store"} :
        /\ \A id \in Live(contents), req \in ContentEdits :
              LET u == UpdateContent(claims, id, req, fault)
                  d == DeleteContent(claims, id, fault)
              IN (claims.role_name # "admin" /\ claims.user_id # contents[id].author_id) =>
                    /\ u.status = 403 /\ u.contents = contents
                    /\ d.status = 403 /\ d.contents = contents
        /\ \A id \in Live(media) :
              LET d == DeleteMedia(claims, id, fault)
              IN (claims.role_name # "admin" /\ claims.user_id # media[id].uploaded_by) =>
                    d.status = 403 /\ d.media = media /\ d.files = files

\* A caller who is neither admin nor the uploader was refused the deletion of
\* a media item, which is still there with its file, and would be refused an
\* edit of a content item another user wrote.
C7_Witness ==
    /\ resp = Respond("DeleteMedia", 403)
    /\ \E id \in Live(media) : media[id].file_path \in files
    /\ \E id \in Live(contents), claims \in CallerClaims :
          UpdateContent(claims, id, [title |-> "Edited", slug |-> "", body |-> "", status |-> ""], "none").status = 403

\* C8: a successful RefreshToken(t) returns an access token whose role id
\* and role name are those stored for the token's user at the time of the
\* refresh, also when the role was changed after the login that issued t.
C8_RefreshReadsStoredRole ==
    \A t \in TokenStrings :
        LET r == RefreshToken(t, "none") IN
        r.err = "" =>
            \A i \in ValidRefreshRows(t) :
                refresh_tokens[i].user_id \in Live(users) =>
                    LET user == users[refresh_tokens[i].user_id] IN
                    /\ ValidateToken(r.access_token).ok
                    /\ r.access_token.claims.user_id = user.id
                    /\ r.access_token.claims.role_id = user.role_id
                    /\ r.access_token.claims.role_name = Roles[user.role_id].name

\* The admin logged in, was made a viewer, and a refresh with the login's
\* refresh token returned a viewer's token.
C8_Witness ==
    /\ resp = Respond("RefreshToken", 200)
    /\ held.access_token.claims.user_id = 1
    /\ held.access_token.claims.role_name = "viewer"
    /\ users[1].role_id = 3

\* C9: an access token ValidateToken accepts is accepted with the same claims
\* in every later state before its expiry, whatever happened to the refresh
\* token of its login or to the user's stored role; only the passing of its
\* expiry time ends its acceptance.
C9_ValidUntilExpiry ==
    [][(ValidateToken(held.access_token).ok /\ held'.access_token = held.access_token) =>
          /\ ValidateToken(held.access_token).claims = held.access_token.claims
          /\ now' < held.access_token.claims.exp =>
                ValidateToken(held.access_token)' = ValidateToken(held.access_token)
          /\ ~ValidateToken(held.access_token)'.ok => now' >= held.access_token.claims.exp]_vars

\* The held access token was accepted after its refresh token was revoked,
\* the stored role of its user was changed and time has passed.
C9_Witness ==
    /\ resp = Respond("GetCurrentUser", 200)
    /\ ValidateToken(held.access_token).ok
    /\ held.refresh_token \in revokedOk
    /\ users[held.access_token.claims.user_id].role_id # held.access_token.claims.role_id
    /\ held.access_token.claims.exp = now + 1

\* C11: RevokeToken(t) returns "token not found" and changes nothing when no
\* row holds t; when a row holds t it returns nil and leaves that row with
\* revoked = true and every other row as it was, also when the row was
\* revoked before, so a second revocation succeeds and changes nothing.
C11_RevokeOutcomes ==
    \A t \in RefreshInputs :
        LET r == RevokeToken(t, "none") IN
        /\ (\A i \in DOMAIN refresh_tokens : refresh_tokens[i].token # t) =>
              r.err = "token not found" /\ r.rows = refresh_tokens
        /\ (\E i \in DOMAIN refresh_tokens : refresh_tokens[i].token = t) =>
              /\ r.err = ""
              /\ r.err # "token not found"
              /\ Len(r.rows) = Len(refresh_tokens)
              /\ \A i \in DOMAIN refresh_tokens :
                    IF refresh_tokens[i].token = t
                    THEN r.rows[i] = [refresh_tokens[i] EXCEPT !.revoked = TRUE]
                    ELSE r.rows[i] = refresh_tokens[i]
        /\ t \in revokedOk => r.err = "" /\ r.rows = refresh_tokens

\* A revocation has succeeded; revoking the same token again succeeds and
\* revoking a token no row holds reports "token not found".
C11_Witness ==
    /\ resp = Respond("Logout", 200)
    /\ \E t \in revokedOk : RevokeToken(t, "none").err = "" /\ refresh_tokens[t].revoked
    /\ \E t \in TokenStrings : RevokeToken(t, "none").err = "token not found"

\* C12: ValidateToken rejects every token whose signing algorithm is not
\* HS256, the algorithm generateAccessToken signs with, also when the token's
\* signature is valid under the configured secret for that other algorithm.
C12_OnlySigningAlgorithm ==
    \A header \in HeaderInputs :
        (header.scheme # "" /\ header.token.alg # generateAccessToken(ZeroUser).alg) =>
            ~ValidateToken(header.token).ok

\* C13: Login for a stored user whose active flag is false fails with "user
\* account is deactivated", an error other than "invalid credentials",
\* whether the password supplied is the right one or not; it returns no
\* token and creates no refresh-token row.
C13_DeactivatedLogin ==
    \A i \in Live(users), p \in LoginPasswords, fault \in {"none", "insert"} :
        ~users[i].active =>
            LET r == Login(users[i].email, p, fault)
                h == AuthHandlerLogin([email |-> users[i].email, password |-> p], fault)
            IN /\ r.err = "user account is deactivated"
               /\ r.err # Login("nobody@floe.cms", p, fault).err
               /\ r.access_token = EmptyToken
               /\ r.refresh_token = 0
               /\ r.rows = refresh_tokens
               /\ p # "" => /\ h.status = 401
                            /\ h.error = "user account is deactivated"
                            /\ h.access_token = EmptyToken
                            /\ h.refresh_token = 0
                            /\ h.rows = refresh_tokens

\* A login was refused while the first user is deactivated, and that user's
\* own password is refused with the deactivation error.
C13_Witness ==
    /\ resp = Respond("Login", 401)
    /\ 1 \in Live(users)
    /\ ~users[1].active
    /\ Login(users[1].email, AdminPassword, "none").err = "user account is deactivated"
    /\ Login(users[1].email, OtherPassword, "none").err = "user account is deactivated"

\* C14: Login returns either an access token and a refresh token, both
\* non-empty, with the refresh token's row stored, or an error with both
\* tokens empty and the store unchanged; when storing the refresh-token row
\* fails it returns the error and no access token.
C14_BothTokensOrNone ==
    \A req \in LoginInputs, fault \in LoginFaults :
        LET r == Login(req.email, req.password, fault) IN
        /\ \/ /\ r.err = ""
              /\ r.access_token # EmptyToken
              /\ ValidateToken(r.access_token).ok
              /\ r.refresh_token # 0
              /\ Len(r.rows) = Len(refresh_tokens) + 1
              /\ \A i \in DOMAIN refresh_tokens : r.rows[i] = refresh_tokens[i]
              /\ r.rows[Len(r.rows)].token = r.refresh_token
              /\ r.rows[Len(r.rows)].user_id = r.access_token.claims.user_id
           \/ /\ r.err # ""
              /\ r.access_token = EmptyToken
              /\ r.refresh_token = 0
              /\ r.rows = refresh_tokens
        /\ fault = "insert" => r.err # "" /\ r.access_token = EmptyToken

\* After an earlier login, a login of the active admin with the right
\* password failed: the store did not answer or did not take the row.
C14_Witness ==
    /\ resp = Respond("Login", 401)
    /\ 1 \in Live(users)
    /\ users[1].active
    /\ refresh_tokens # <<>>
    /\ Login(AdminEmail, AdminPassword, "insert").err = "store error"
    /\ Login(AdminEmail, AdminPassword, "insert").access_token = EmptyToken

\* C15: a step changes refresh_tokens only in two ways. A successful Login
\* appends exactly one row, unrevoked, expiring at login time + refresh TTL,
\* and leaves every earlier row as it was. A successful RevokeToken sets
\* revoked to true on rows and changes nothing else. No step removes a row,
\* changes a token, user or expiry, or sets revoked back to false.
C15_RowLifecycle ==
    [][/\ \/ refresh_tokens' = refresh_tokens
          \/ /\ resp' = Respond("Login", 200)
             /\ Len(refresh_tokens') = Len(refresh_tokens) + 1
             /\ \A i \in DOMAIN refresh_tokens : refresh_tokens'[i] = refresh_tokens[i]
             /\ ~refresh_tokens'[Len(refresh_tokens')].revoked
             /\ refresh_tokens'[Len(refresh_tokens')].expires_at = now + RefreshExp
             /\ \A i \in DOMAIN refresh_tokens :
                   refresh_tokens[i].token # refresh_tokens'[Len(refresh_tokens')].token
          \/ /\ resp' = Respond("Logout", 200)
             /\ Len(refresh_tokens') = Len(refresh_tokens)
             /\ \A i \in DOMAIN refresh_tokens :
                   \/ refresh_tokens'[i] = refresh_tokens[i]
                   \/ refresh_tokens'[i] = [refresh_tokens[i] EXCEPT !.revoked = TRUE]
       /\ resp' = Respond("Login", 200) => Len(refresh_tokens') = Len(refresh_tokens) + 1
       /\ \A i \in DOMAIN refresh_tokens :
             refresh_tokens[i].revoked => (i \in DOMAIN refresh_tokens' /\ refresh_tokens'[i].revoked)]_vars

\* A second login of the same user has just stored its row next to the row
\* of the first login, which is still unrevoked and unexpired.
C15_Witness ==
    /\ resp = Respond("Login", 200)
    /\ Len(refresh_tokens) = 2
    /\ refresh_tokens[1].user_id = refresh_tokens[2].user_id
    /\ ~refresh_tokens[1].revoked
    /\ now < refresh_tokens[1].expires_at
    /\ refresh_tokens[1].expires_at < refresh_tokens[2].expires_at
    /\ refresh_tokens[2].expires_at = now + RefreshExp

\* C16: a RefreshToken(t) call succeeds only if its query ran before a
\* RevokeToken(t) committed, and a call whose query ran after the commit
\* fails, whenever it returns; a query that ran before any commit, on a token
\* a row holds unexpired, succeeds whatever other RefreshToken call is in
\* progress, so two concurrent calls both succeed.
C16_RefreshRevokeRace ==
    \A c \in RefreshCalls :
        calls[c].pc \in {"loaded", "done"} =>
            /\ calls[c].load.found => ~calls[c].afterCommit
            /\ calls[c].afterCommit => ~calls[c].load.found
            /\ (~calls[c].afterCommit /\ calls[c].unexpired) => calls[c].load.found
            /\ calls[c].pc = "done" =>
                  /\ calls[c].result.err = "" <=> calls[c].load.found
                  /\ calls[c].result.err # "" =>
                        /\ calls[c].result.err = "invalid refresh token"
                        /\ calls[c].result.access_token = EmptyToken
                  /\ calls[c].result.err = "" =>
                        calls[c].result.access_token.claims.user_id = calls[c].load.user.id

\* Both RefreshToken calls ran their query on the same token before the
\* revocation of that token committed; the revocation has returned, one
\* call returned an access token after that and the other is about to.
C16_Witness ==
    /\ calls["refresh1"].pc = "done"
    /\ calls["refresh1"].result.err = ""
    /\ calls["refresh2"].pc = "loaded"
    /\ calls["refresh2"].load.found
    /\ calls["refresh2"].token = calls["refresh1"].token
    /\ calls["revoke"].pc = "done"
    /\ calls["revoke"].token = calls["refresh1"].token
    /\ calls["revoke"].result.err = ""
    /\ resp = Respond("RefreshToken", 200)

\* C17: whatever requests create, update and delete users, change the
\* caller's own account or its password, a user that is not deleted holds
\* the admin role.
C17_AdminRemains == \E i \in Live(users) : users[i].role_id = 1

\* C18: DeleteUser on the only admin-role user that is not deleted answers
\* 400 "Cannot delete the only admin user" and leaves the users table as it
\* was; when two admin-role users are stored, DeleteUser on either answers
\* 200 and marks that user, and no other, deleted.
C18_LastAdminKept ==
    LET admins == {i \in Live(users) : users[i].role_id = 1} IN
    \A id \in admins :
        /\ Cardinality(admins) = 1 =>
              /\ DeleteUser(id).status = 400
              /\ DeleteUser(id).error = "Cannot delete the only admin user"
              /\ DeleteUser(id).users = users
        /\ Cardinality(admins) >= 2 =>
              /\ DeleteUser(id).status = 200
              /\ DeleteUser(id).users = [users EXCEPT ![id].deleted = TRUE]

\* One of two admins has just been deleted, and deleting the one that is
\* left is refused.
C18_Witness ==
    /\ resp = Respond("DeleteUser", 200)
    /\ \E i, j \in DOMAIN users :
          /\ users[i].deleted /\ users[i].role_id = 1
          /\ {k \in Live(users) : users[k].role_id = 1} = {j}
          /\ DeleteUser(j).status = 400
          /\ DeleteUser(j).users = users

\* C19: a ChangePassword request that carries both passwords and an
\* acceptable new one answers 401 and leaves the users table as it was when
\* the old password does not verify against the caller's stored hash; when
\* it answers 200 the caller's stored hash verifies the new password and no
\* longer the old one, and a Login with the old password after it fails.
C19_PasswordReplaced ==
    [][\A claims \in SelfClaims, req \in PasswordChanges :
          LET r == ChangePassword(claims, req)
              id == claims.user_id
          IN /\ ( /\ id \in Live(users)
                  /\ req.old_password # "" /\ req.new_password # ""
                  /\ ValidatePassword(req.new_password, 8) = ""
                  /\ ~CompareHashAndPassword(users[id].password_hash, req.old_password) )
                => (r.status = 401 /\ r.users = users)
             /\ r.status = 200 =>
                  /\ CompareHashAndPassword(r.users[id].password_hash, req.new_password)
                  /\ ~CompareHashAndPassword(r.users[id].password_hash, req.old_password)
             /\ (r.status = 200 /\ users' = r.users /\ resp' = Respond("ChangePassword", 200))
                => Login(users[id].email, req.old_password, "none")'.err # ""
    ]_vars

\* C20: whatever requests have written users and workspaces since the
\* server first started, EnsureAdminExists with the configured admin email
\* and password returns nil and leaves the users, workspaces and
\* user_workspaces tables as they were.
C20_BootstrapIdempotent ==
    LET r == EnsureAdminExists(AdminEmail, AdminPassword) IN
    /\ r.err = ""
    /\ r.users = users
    /\ r.workspaces = workspaces
    /\ r.user_workspaces = user_workspaces

\* C21: when the store fails during Login, on the user lookup or on the
\* insert of the refresh token, POST /api/auth/login answers 5xx with an
\* error that is not the store's error text; it does not answer 401.
C21_StoreFailureIs5xx ==
    \A req \in LoginInputs, fault \in LoginFaults :
        LET m == Login(req.email, req.password, fault)
            r == AuthHandlerLogin(req, fault)
        IN (req.email # "" /\ req.password # "" /\ m.err = "store error") =>
              /\ r.status >= 500 /\ r.status < 600
              /\ r.error # m.err

\* C22: POST /api/auth/logout with a refresh token that no row holds gives
\* a response that differs, in status or in message, from the response to a
\* store failure, and both leave the refresh_tokens table as it was; with a
\* token that a row holds it answers 200 and the row is revoked.
C22_LogoutNotFoundDistinct ==
    \A t \in TokenStrings :
        LET ok == AuthHandlerLogout([refresh_token |-> t], "none")
            failed == AuthHandlerLogout([refresh_token |-> t], "query")
        IN /\ failed.rows = refresh_tokens
           /\ RefreshRowsByToken(t) = {} =>
                 /\ ok.rows = refresh_tokens
                 /\ <<ok.status, ok.error>> # <<failed.status, failed.error>>
           /\ RefreshRowsByToken(t) # {} =>
                 /\ ok.status = 200
                 /\ \A i \in RefreshRowsByToken(t) : ok.rows[i].revoked

\* C23: every item GetPublishedContent lists and the item GetContentBySlug
\* returns is stored and not deleted, has status "published" and belongs to
\* the stored workspace whose slug is the one in the URL, whatever statuses
\* the items have been moved through; GetContentBySlug returns an item with
\* the slug asked for.
C23_PublicOnlyPublished ==
    \A w \in WorkspaceSlugs :
        /\ \A i \in GetPublishedContent(w).listed :
              /\ i \in Live(contents)
              /\ contents[i].status = "published"
              /\ contents[i].workspace_id \in Live(workspaces)
              /\ workspaces[contents[i].workspace_id].slug = w
        /\ \A slug \in ContentSlugs :
              \A i \in GetContentBySlug(w, slug).listed :
                 /\ i \in Live(contents)
                 /\ contents[i].status = "published"
                 /\ contents[i].slug = slug
                 /\ contents[i].workspace_id \in Live(workspaces)
                 /\ workspaces[contents[i].workspace_id].slug = w

\* The listing of a workspace has just returned a published item and left
\* out an item of the same workspace that was moved to another status.
C23_Witness ==
    /\ resp = Respond("GetPublishedContent", 200)
    /\ \E w \in WorkspaceSlugs :
          /\ GetPublishedContent(w).listed # {}
          /\ \E i \in Live(contents) :
                /\ contents[i].status = "archived"
                /\ contents[i].workspace_id \in WorkspaceBySlug(w)
                /\ i \notin GetPublishedContent(w).listed

\* C24: RefreshToken with a refresh token of a user that DeleteUser has
\* removed fails; every access token RefreshToken issues carries the id of a
\* stored user that is not deleted, never the id 0 with an empty email and
\* an empty role name.
C24_DeletedUserCannotRefresh ==
    \A t \in TokenStrings :
        LET r == RefreshToken(t, "none") IN
        /\ (\E i \in RefreshRowsByToken(t) : refresh_tokens[i].user_id \notin Live(users)) => r.err # ""
        /\ r.err = "" =>
              /\ r.access_token.claims.user_id \in Live(users)
              /\ r.access_token.claims.email # ""
              /\ r.access_token.claims.role_name # ""

\* C25: for a stored user whose active flag is false, Login with the
\* user's email fails whatever the password, and RefreshToken with a refresh
\* token of that user fails.
C25_DeactivatedGetsNoToken ==
    \A u \in Live(users) :
        ~users[u].active =>
            /\ \A password \in LoginPasswords : Login(users[u].email, password, "none").err # ""
            /\ \A t \in TokenStrings :
                  (\E i \in RefreshRowsByToken(t) : refresh_tokens[i].user_id = u) =>
                      RefreshToken(t, "none").err # ""

\* C26: POST /api/auth/logout from a caller with a valid access token
\* leaves unrevoked every refresh token that is owned by a user other than
\* the one the access token identifies.
C26_LogoutOwnTokenOnly ==
    \A u \in Live(users), t \in TokenStrings :
        LET header == Bearer(generateAccessToken(PreloadUser(u)), "issued")
            r == LogoutRoute(header, [refresh_token |-> t], "none")
        IN \A i \in RefreshRowsByToken(t) :
              (refresh_tokens[i].user_id # AuthMiddleware(header).claims.user_id /\ ~refresh_tokens[i].revoked)
                  => ~r.rows[i].revoked

\* C27: when two concurrent DeleteUser requests have targeted the two
\* admin-role users that remained and both have returned, an admin-role user
\* that is not deleted is still stored; the two requests have not both
\* answered 200.
C27_ConcurrentDeletesKeepAdmin ==
    ( /\ \A c \in DeleteCalls :
            /\ deletes[c].pc = "done"
            /\ deletes[c].id \in DOMAIN users
            /\ users[deletes[c].id].role_id = 1
      /\ deletes["delete1"].id # deletes["delete2"].id )
    => /\ {i \in Live(users) : users[i].role_id = 1} # {}
       /\ ~(deletes["delete1"].status = 200 /\ deletes["delete2"].status = 200)

\* C28: at most one membership row that is not deleted exists per (user,
\* workspace) pair, and AddUserToWorkspace for a stored user without such a
\* row answers 201 and stores one, also when RemoveUserFromWorkspace has
\* removed the pair's membership before.
C28_ReAddRestoresMembership ==
    \A u \in UserIds, w \in Workspaces :
        LET pair(rows) == {i \in Live(rows) : rows[i].user_id = u /\ rows[i].workspace_id = w}
            r == AddUserToWorkspace(w, [user_id |-> u])
        IN /\ Cardinality(pair(user_workspaces)) <= 1
           /\ (u \in Live(users) /\ pair(user_workspaces) = {}) =>
                 /\ r.status = 201
                 /\ Cardinality(pair(r.user_workspaces)) = 1

\* C29: after every UploadMedia and DeleteMedia, failed or not, the files
\* in storage are the files of the media records that are not deleted:
\* no record is without its file and no file without its record.
C29_RecordIffFile == {media[i].file_path : i \in Live(media)} = files

\* C30: for a request answered 401 the interceptor makes at most one call
\* to /api/auth/refresh, and when that call is answered 401 the client's next
\* step clears the stored tokens and redirects to /login without a further
\* refresh call.
C30_RefreshTerminates ==
    [][ /\ client'.refreshes <= 1
        /\ (client.pc = "refreshing" /\ RefreshStatus = 401 /\ client' # client) =>
              /\ client'.pc = "login"
              /\ held' = ClearedTokens
      ]_vars

====
